---- MODULE Spec2Model ----
(***************************************************************************)
(* State-machine model of archinfo's arch.py: the Arch descriptor          *)
(* (construction-time derivation, capstone/unicorn handles, register       *)
(* transplantation) and the register_arch / arch_from_id registry.         *)
(***************************************************************************)
EXTENDS Integers, Sequences, FiniteSets, TLC

VARIABLES
    arch_id_map,   \* module-level list of (regexes, bits, endness, my_arch)
    all_arches,    \* module-level list of retained Arch instances
    call,          \* the last call: its operation, arguments, outcome and the lists before it
    registers,     \* class-level forward table name -> (offset, size) of every variant
    obj,           \* the Arch instance under observation, with what was true when it was built
    heap,          \* the number of backend handles (capstone.Cs, unicorn.Uc) created so far
    s1,            \* registers of a first execution state, by name
    s2             \* registers of a second execution state, by name

vars == <<arch_id_map, all_arches, call, registers, obj, heap, s1, s2>>

(***************************************************************************)
(* Bounds of the model.                                                    *)
(***************************************************************************)
MaxRegistry == 2
MaxHandles == 3
MaxValue == 1

(***************************************************************************)
(* Values.                                                                 *)
(***************************************************************************)
LE == "Iend_LE"
BE == "Iend_BE"
ME == "Iend_ME"

None == "None"

Ok(v) == [kind |-> "ok", exc |-> None, val |-> v]
Raise(e) == [kind |-> "raise", exc |-> e, val |-> None]

\* Python values that may be an int or a str, tagged with their type.
PyInt(n) == [kind |-> "int", val |-> n]
PyStr(s) == [kind |-> "str", val |-> s]
PyNone == [kind |-> "None", val |-> None]

\* Python truthiness of a tagged int / str / None.
Truthy(v) ==
    CASE v.kind = "int" -> v.val # 0
      [] v.kind = "str" -> v.val # <<>>
      [] OTHER -> FALSE

(***************************************************************************)
(* Strings are sequences of one-character strings.                         *)
(***************************************************************************)
\* `sub in s`
Contains(sub, s) ==
    \E i \in 0..(Len(s) - Len(sub)) : SubSeq(s, i + 1, i + Len(sub)) = sub

LowerChar(c) ==
    CASE c = "A" -> "a"
      [] c = "B" -> "b"
      [] c = "E" -> "e"
      [] c = "G" -> "g"
      [] c = "I" -> "i"
      [] c = "L" -> "l"
      [] c = "M" -> "m"
      [] c = "S" -> "s"
      [] c = "T" -> "t"
      [] OTHER -> c

\* str.lower()
Lower(s) == [i \in 1..Len(s) |-> LowerChar(s[i])]

\* re.compile(rx) succeeds: the patterns used here are literal prefixes, and
\* a pattern holding an unbalanced "(" does not compile.
ReCompiles(rx) == ~Contains(<<"(">>, rx.val)

\* re.match(rx, ident): the literal pattern matches at the start of ident.
ReMatch(rx, ident) ==
    /\ Len(rx.val) <= Len(ident)
    /\ SubSeq(ident, 1, Len(rx.val)) = rx.val

(***************************************************************************)
(* Variant classes: the class attributes each concrete Arch subclass       *)
(* supplies.                                                               *)
(***************************************************************************)
Classes == {"ArchX86", "ArchARM", "ArchAVR"}

cls_name(cls) ==
    CASE cls = "ArchX86" -> "X86"
      [] cls = "ArchARM" -> "ARMEL"
      [] OTHER -> "AVR"

\* The forward table as declared: a list of <<name, <<offset, size>>>> in
\* the dict's iteration order.
cls_registers(cls) ==
    CASE cls = "ArchX86" ->
            << <<"esp", <<24, 4>>>>, <<"sp", <<24, 4>>>>, <<"ip", <<68, 4>>>> >>
      [] cls = "ArchARM" ->
            << <<"sp", <<60, 4>>>>, <<"r13", <<60, 4>>>>, <<"r0", <<8, 4>>>> >>
      [] OTHER -> << <<"r0", <<0, 1>>>> >>

\* register_names: offset -> display name, as a set of <<offset, name>>.
cls_register_names(cls) ==
    CASE cls = "ArchX86" -> { <<24, "esp">>, <<68, "eip">> }
      [] cls = "ArchARM" -> { <<60, "sp">>, <<8, "r0">> }
      [] OTHER -> { <<0, "r0">> }

cls_ret_instruction(cls) ==
    CASE cls = "ArchARM" -> <<30, 255, 47, 225>>
      [] OTHER -> <<>>

cls_nop_instruction(cls) ==
    CASE cls = "ArchARM" -> <<0, 0, 0, 0, 1, 2, 3, 4>>
      [] OTHER -> <<>>

\* A capstone / unicorn mode value: the sum of its low flag bits and of
\* big_endian times the backend's BIG_ENDIAN flag (its LITTLE_ENDIAN flag is
\* the number zero).
PyMode(low, big_endian) == [kind |-> "int", low |-> low, big_endian |-> big_endian]

cls_cs_arch(cls) ==
    CASE cls = "ArchX86" -> "CS_ARCH_X86"
      [] cls = "ArchARM" -> "CS_ARCH_ARM"
      [] OTHER -> None

cls_cs_mode(cls) ==
    CASE cls = "ArchX86" -> PyMode(4, 0)
      [] cls = "ArchARM" -> PyMode(0, 0)
      [] OTHER -> PyNone

cls_uc_arch(cls) ==
    CASE cls = "ArchX86" -> "UC_ARCH_X86"
      [] cls = "ArchARM" -> "UC_ARCH_ARM"
      [] OTHER -> None

cls_uc_mode(cls) ==
    CASE cls = "ArchX86" -> PyMode(4, 0)
      [] cls = "ArchARM" -> PyMode(0, 0)
      [] OTHER -> PyNone

\* The names REG_<R> the variant's unicorn constants module defines.
cls_uc_const(cls) ==
    CASE cls = "ArchX86" -> {"esp", "eip"}
      [] cls = "ArchARM" -> {"sp", "r0"}
      [] OTHER -> {}

cls_persistent_regs(cls) ==
    CASE cls = "ArchX86" -> <<"ebx">>
      [] cls = "ArchARM" -> <<"r10", "r9">>
      [] OTHER -> <<>>

\* The endness a variant's constructor takes when called without one.
cls_default_endness(cls) == LE

(***************************************************************************)
(* Arch.__init__                                                           *)
(***************************************************************************)
\* reverse_ends(string): byte-reverse every 4-byte group; struct refuses a
\* string whose length is not 4 * (len // 4).
reverse_ends(string) ==
    IF Len(string) % 4 # 0
    THEN Raise("struct.error")
    ELSE Ok([i \in 1..Len(string) |->
                string[4 * ((i - 1) \div 4) + 4 - ((i - 1) % 4)]])

\* One pass of the loop `for k in self.registers` over the first n entries.
RECURSIVE register_size_names_loop(_, _, _, _)
register_size_names_loop(name, regs, register_names, n) ==
    IF n = 0 THEN {}
    ELSE LET acc == register_size_names_loop(name, regs, register_names, n - 1)
             k == regs[n][1]
             v == regs[n][2]
         IN  IF name \in {"X86", "AMD64"} /\ k \in {"bp", "sp", "ip"}
             THEN acc
             ELSE IF /\ \E e \in acc : e[1] = v
                     /\ PyStr(k) \notin {PyInt(e[1]) : e \in register_names}
                  THEN acc
                  ELSE {e \in acc : e[1] # v} \cup {<<v, k>>}

\* The loop without the X86 / AMD64 special case.
MutReverseWithoutExclusion(name, regs, register_names) ==
    register_size_names_loop("", regs, register_names, Len(regs))

\* The reverse table (offset, size) -> name, as a set of <<<<offset, size>>, name>>.
register_size_names_of(name, regs, register_names) ==
    register_size_names_loop(name, regs, register_names, Len(regs))

\* The value None of the attribute _cs, shaped like a handle.
NoHandle == [id |-> 0, arch |-> None, mode |-> PyNone]

\* mode -= <backend>.MODE_LITTLE_ENDIAN; mode += <backend>.MODE_BIG_ENDIAN,
\* when the mode is not None.
FlipMode(mode) ==
    IF mode.kind = "int" THEN PyMode(mode.low, mode.big_endian + 1) ELSE mode

\* Arch.__init__(self, endness) on an instance of cls whose class-level
\* forward table is regs: the constructed instance or the exception raised.
\* pyvex is taken as not installed (_pyvex is None), so vex_archinfo stays
\* None; a variant that sets uc_mode has unicorn installed.
Arch_init(cls, endness, regs) ==
    IF endness \notin {LE, BE, ME}
    THEN Raise("ArchError")
    ELSE
      LET be == endness = BE
          ret == IF be THEN reverse_ends(cls_ret_instruction(cls))
                       ELSE Ok(cls_ret_instruction(cls))
          nop == IF be THEN reverse_ends(cls_nop_instruction(cls))
                       ELSE Ok(cls_nop_instruction(cls))
      IN  IF ret.kind = "raise" THEN ret
          ELSE IF nop.kind = "raise" THEN nop
          ELSE Ok([cls |-> cls,
                   name |-> cls_name(cls),
                   memory_endness |-> IF be THEN BE ELSE LE,
                   register_endness |-> IF be THEN BE ELSE LE,
                   ret_instruction |-> ret.val,
                   nop_instruction |-> nop.val,
                   cs_arch |-> cls_cs_arch(cls),
                   cs_mode |-> IF be
                               THEN FlipMode(cls_cs_mode(cls))
                               ELSE cls_cs_mode(cls),
                   uc_arch |-> cls_uc_arch(cls),
                   uc_mode |-> IF be
                               THEN FlipMode(cls_uc_mode(cls))
                               ELSE cls_uc_mode(cls),
                   uc_regs |-> IF cls_uc_mode(cls).kind = "int"
                               THEN {e[2] : e \in cls_register_names(cls)}
                                        \cap cls_uc_const(cls)
                               ELSE {},
                   register_size_names |->
                       register_size_names_of(cls_name(cls), regs,
                                              cls_register_names(cls)),
                   _cs |-> NoHandle])

(***************************************************************************)
(* register_arch                                                           *)
(***************************************************************************)
PyList(items) == [kind |-> "list", val |-> items]

\* The first exception the validation loop `for rx in regexes` raises, or None.
RECURSIVE regexes_check(_, _)
regexes_check(items, i) ==
    IF i > Len(items) THEN None
    ELSE IF items[i].kind \notin {"str", "pattern"} THEN "TypeError"
    ELSE IF ~ReCompiles(items[i]) THEN "ValueError"
    ELSE regexes_check(items, i + 1)

\* Lines 411-426: the exception the argument checks raise, or None.
register_arch_check(regexes, bits, endness) ==
    IF regexes.kind # "list" THEN "TypeError"
    ELSE IF regexes_check(regexes.val, 1) # None THEN regexes_check(regexes.val, 1)
    ELSE IF bits.kind # "int" THEN "TypeError"
    ELSE IF endness.kind # "str" /\ endness.val \notin {BE, LE, "any"} THEN "TypeError"
    ELSE None

\* Line 427: arch_id_map.append((regexes, bits, endness, my_arch))
arch_id_map_append(map, regexes, bits, endness, my_arch) ==
    Append(map, [arxs |-> regexes.val, abits |-> bits.val,
                 aendness |-> endness.val, acls |-> my_arch])

\* Lines 428-432: the instances appended to all_arches, and the exception
\* that ends the call, if a constructor raises.
register_arch_instances(all, endness, my_arch, regs) ==
    IF endness.val = "any"
    THEN LET b == Arch_init(my_arch, BE, regs)
             l == Arch_init(my_arch, LE, regs)
         IN  IF b.kind = "raise" THEN [all |-> all, ret |-> b]
             ELSE IF l.kind = "raise" THEN [all |-> Append(all, b.val), ret |-> l]
             ELSE [all |-> Append(Append(all, b.val), l.val), ret |-> Ok(None)]
    ELSE LET a == Arch_init(my_arch, endness.val, regs)
         IN  IF a.kind = "raise" THEN [all |-> all, ret |-> a]
             ELSE [all |-> Append(all, a.val), ret |-> Ok(None)]

\* register_arch(regexes, bits, endness, my_arch): the two lists after the
\* call and its outcome.
register_arch(map, all, regexes, bits, endness, my_arch, regs) ==
    LET exc == register_arch_check(regexes, bits, endness)
    IN  IF exc # None
        THEN [map |-> map, all |-> all, ret |-> Raise(exc)]
        ELSE LET built == register_arch_instances(all, endness, my_arch, regs)
             IN  [map |-> arch_id_map_append(map, regexes, bits, endness, my_arch),
                  all |-> built.all,
                  ret |-> built.ret]

(***************************************************************************)
(* arch_from_id                                                            *)
(***************************************************************************)
\* Lines 441-448: the bits hint after normalisation.
normalize_bits(bits, ident) ==
    IF \/ (bits.kind = "int" /\ bits.val = 64)
       \/ (bits.kind = "str" /\ Contains(<<"6", "4">>, bits.val))
    THEN PyInt(64)
    ELSE IF bits.kind = "str" /\ Contains(<<"3", "2">>, bits.val) THEN PyInt(32)
    ELSE IF ~Truthy(bits) /\ Contains(<<"6", "4">>, ident) THEN PyInt(64)
    ELSE IF ~Truthy(bits) /\ Contains(<<"3", "2">>, ident) THEN PyInt(32)
    ELSE bits

\* Lines 450-468: the endness hint after normalisation.
normalize_endness(hint) ==
    LET endness == Lower(hint)
    IN  IF Contains(<<"l", "i", "t">>, endness) THEN LE
        ELSE IF Contains(<<"b", "i", "g">>, endness) THEN BE
        ELSE IF Contains(<<"l", "s", "b">>, endness) THEN LE
        ELSE IF Contains(<<"m", "s", "b">>, endness) THEN BE
        ELSE IF Contains(<<"l", "e">>, endness) THEN LE
        ELSE IF Contains(<<"b", "e">>, endness) THEN BE
        ELSE IF Contains(<<"l">>, endness) THEN "unsure"
        ELSE IF Contains(<<"b">>, endness) THEN "unsure"
        ELSE "unsure"

\* Lines 473-477: some regex of the entry matches ident.
found_it(arxs, ident) == \E i \in 1..Len(arxs) : ReMatch(arxs[i], ident)

\* entry_accepted without the check of the bits hint.
MutAcceptedIgnoringBits(entry, ident, bits, endness) ==
    /\ \E i \in 1..Len(entry.arxs) : ReMatch(entry.arxs[i], ident)
    /\ (entry.aendness = "any" \/ endness = entry.aendness \/ endness = "unsure")

\* Lines 478-482: the loop body reaches `cls = acls` for this entry.
entry_accepted(entry, ident, bits, endness) ==
    /\ found_it(entry.arxs, ident)
    /\ ~(Truthy(bits) /\ (bits.kind # "int" \/ bits.val # entry.abits))
    /\ (entry.aendness = "any" \/ endness = entry.aendness \/ endness = "unsure")

\* The scan without its `break`: the last accepted entry is kept.
RECURSIVE MutScanKeepsLast(_, _, _, _, _)
MutScanKeepsLast(map, ident, bits, endness, i) ==
    IF i > Len(map) THEN 0
    ELSE LET later == MutScanKeepsLast(map, ident, bits, endness, i + 1)
         IN  IF later # 0 THEN later
             ELSE IF /\ \E n \in 1..Len(map[i].arxs) : ReMatch(map[i].arxs[n], ident)
                     /\ ~(Truthy(bits) /\ (bits.kind # "int" \/ bits.val # map[i].abits))
                     /\ (\/ map[i].aendness = "any"
                         \/ endness = map[i].aendness
                         \/ endness = "unsure")
                  THEN i
                  ELSE 0

\* Lines 472-484: the index of the entry the loop breaks at, 0 if it ends
\* without one.
RECURSIVE arch_id_map_scan(_, _, _, _, _)
arch_id_map_scan(map, ident, bits, endness, i) ==
    IF i > Len(map) THEN 0
    ELSE IF entry_accepted(map[i], ident, bits, endness) THEN i
    ELSE arch_id_map_scan(map, ident, bits, endness, i + 1)

\* Lines 487-496: the constructor call that builds the returned instance.
arch_from_id_construct(entry, endness, regs) ==
    IF endness = "unsure"
    THEN IF entry.aendness = "any"
         THEN Arch_init(entry.acls, cls_default_endness(entry.acls), regs[entry.acls])
         ELSE Arch_init(entry.acls, entry.aendness, regs[entry.acls])
    ELSE Arch_init(entry.acls, endness, regs[entry.acls])

\* arch_from_id(ident, endness, bits): the instance returned or the
\* exception raised.
arch_from_id(map, ident, endness_hint, bits_hint, regs) ==
    LET bits == normalize_bits(bits_hint, ident)
        endness == normalize_endness(endness_hint)
        i == arch_id_map_scan(map, Lower(ident), bits, endness, 1)
    IN  IF i = 0 THEN Raise("RuntimeError")
        ELSE arch_from_id_construct(map[i], endness, regs)

(***************************************************************************)
(* Arch.capstone, Arch.unicorn, Arch.__getstate__                          *)
(***************************************************************************)
\* _capstone.Cs(arch, mode) / _unicorn.Uc(arch, mode): a new object, the
\* id-th one created.
NewHandle(id, arch, mode) == [id |-> id, arch |-> arch, mode |-> mode]

\* Arch.capstone without the `if self._cs is None` test.
MutCapstoneAlwaysBuilds(d, n) ==
    IF d.cs_arch = None
    THEN [d |-> d, heap |-> n, ret |-> Raise("ArchError")]
    ELSE LET cs == NewHandle(n + 1, d.cs_arch, d.cs_mode)
         IN  [d |-> [d EXCEPT !._cs = cs], heap |-> n + 1, ret |-> Ok(cs)]

\* The property Arch.capstone read on d with n handles created so far: the
\* instance afterwards, the handle count afterwards, the value or exception.
capstone(d, n) ==
    IF d.cs_arch = None
    THEN [d |-> d, heap |-> n, ret |-> Raise("ArchError")]
    ELSE IF d._cs.id = 0
    THEN LET cs == NewHandle(n + 1, d.cs_arch, d.cs_mode)
         IN  [d |-> [d EXCEPT !._cs = cs], heap |-> n + 1, ret |-> Ok(cs)]
    ELSE [d |-> d, heap |-> n, ret |-> Ok(d._cs)]

\* The property Arch.unicorn read on d.
unicorn(d, n) ==
    IF d.uc_arch = None
    THEN [d |-> d, heap |-> n, ret |-> Raise("ArchError")]
    ELSE [d |-> d, heap |-> n + 1, ret |-> Ok(NewHandle(n + 1, d.uc_arch, d.uc_mode))]

\* Arch.__getstate__: the instance afterwards.
getstate(d) == [d EXCEPT !._cs = NoHandle]

(***************************************************************************)
(* Arch.gather_info_from_state, Arch.prepare_state                         *)
(***************************************************************************)
PyDict(f) == [kind |-> "dict", val |-> f]

\* The names in a list.
Elems(list) == {list[i] : i \in 1..Len(list)}

\* gather_info_from_state(state): {reg: state.registers.load(reg)}
gather_info_from_state(d, state) ==
    PyDict([reg \in Elems(cls_persistent_regs(d.cls)) |-> state[reg]])

\* prepare_state without the loop over persistent_regs: every key of info is stored.
MutPrepareStoresEveryKey(d, state, info) ==
    IF info.kind = "None" THEN state
    ELSE [reg \in DOMAIN state |->
            IF reg \in DOMAIN info.val THEN info.val[reg] ELSE state[reg]]

\* prepare_state(state, info): the registers of state afterwards.
prepare_state(d, state, info) ==
    IF info.kind = "None" THEN state
    ELSE [reg \in DOMAIN state |->
            IF reg \in Elems(cls_persistent_regs(d.cls)) /\ reg \in DOMAIN info.val
            THEN info.val[reg]
            ELSE state[reg]]

(***************************************************************************)
(* The calls made on the registry.                                         *)
(***************************************************************************)
\* The patterns a variant module registers itself under.
cls_regexes(cls) ==
    CASE cls = "ArchX86" -> PyList(<<PyStr(<<"a">>)>>)
      [] OTHER -> PyList(<<PyStr(<<"b">>), PyStr(<<"a", "6">>)>>)

RegisteredClasses == {"ArchX86", "ArchARM"}

WellTypedRegisterArgs ==
    {[regexes |-> cls_regexes(c), bits |-> PyInt(b), endness |-> PyStr(e), my_arch |-> c] :
        c \in RegisteredClasses, b \in {32, 64}, e \in {LE, BE, "any"}}

OtherRegisterArgs ==
    {[regexes |-> PyStr(<<"a">>), bits |-> PyInt(32), endness |-> PyStr(LE), my_arch |-> "ArchX86"],
     [regexes |-> PyList(<<PyStr(<<"a">>), PyStr(<<"(", "b">>)>>), bits |-> PyInt(32),
      endness |-> PyStr(LE), my_arch |-> "ArchX86"],
     [regexes |-> PyList(<<PyInt(5)>>), bits |-> PyInt(32), endness |-> PyStr(LE),
      my_arch |-> "ArchX86"],
     [regexes |-> cls_regexes("ArchX86"), bits |-> PyStr(<<"3", "2">>), endness |-> PyStr(LE),
      my_arch |-> "ArchX86"],
     [regexes |-> cls_regexes("ArchX86"), bits |-> PyInt(0), endness |-> PyStr(LE),
      my_arch |-> "ArchX86"],
     [regexes |-> cls_regexes("ArchX86"), bits |-> PyInt(32), endness |-> PyNone,
      my_arch |-> "ArchX86"],
     [regexes |-> cls_regexes("ArchARM"), bits |-> PyInt(32), endness |-> PyStr(ME),
      my_arch |-> "ArchARM"],
     [regexes |-> cls_regexes("ArchARM"), bits |-> PyInt(32), endness |-> PyStr("foo"),
      my_arch |-> "ArchARM"]}

RegisterArgs == WellTypedRegisterArgs \cup OtherRegisterArgs

Idents == { <<"a", "6", "4">>, <<"A", "3", "2">>, <<"b">> }

EndnessHints == { <<"a", "n", "y">>, <<"L", "S", "B">>, <<"I", "e", "n", "d", "_", "B", "E">> }

BitsHints == { PyStr(<<>>), PyInt(64), PyStr(<<"3", "2">>) }

ResolveArgs ==
    {[ident |-> i, endness |-> e, bits |-> b] :
        i \in Idents, e \in EndnessHints, b \in BitsHints}

\* What a call record remembers of the state the call started in.
Pre == [map |-> arch_id_map, all |-> all_arches, obj |-> obj, heap |-> heap, s2 |-> s2]

NoObj == [live |-> FALSE]

StateRegs == {"ebx", "r9", "r10"}

InitCommon ==
    /\ arch_id_map = <<>>
    /\ all_arches = <<>>
    /\ registers = [c \in Classes |-> cls_registers(c)]
    /\ heap = 0

InitRegistry ==
    /\ InitCommon
    /\ obj = NoObj
    /\ s1 = [r \in StateRegs |-> 0]
    /\ s2 = [r \in StateRegs |-> 0]
    /\ call = [op |-> "none", args |-> None, ret |-> Ok(None), pre |-> Pre]

Register(a) ==
    /\ Len(arch_id_map) < MaxRegistry
    /\ LET r == register_arch(arch_id_map, all_arches, a.regexes, a.bits, a.endness,
                              a.my_arch, registers[a.my_arch])
       IN  /\ arch_id_map' = r.map
           /\ all_arches' = r.all
           /\ call' = [op |-> "register", args |-> a, ret |-> r.ret, pre |-> Pre]
    /\ UNCHANGED <<registers, obj, heap, s1, s2>>

Resolve(a) ==
    /\ call' = [op |-> "resolve", args |-> a,
                ret |-> arch_from_id(arch_id_map, a.ident, a.endness, a.bits, registers),
                pre |-> Pre]
    /\ UNCHANGED <<arch_id_map, all_arches, registers, obj, heap, s1, s2>>

Next ==
    \/ \E a \in RegisterArgs : Register(a)
    \/ \E a \in ResolveArgs : Resolve(a)

Spec == InitRegistry /\ [][Next]_vars

(***************************************************************************)
(* Properties of register_arch and arch_from_id, under Spec.               *)
(***************************************************************************)
\* The hints of the last arch_from_id call, normalised, and its identifier,
\* lower-cased.
ResolveBits == normalize_bits(call.args.bits, call.args.ident)
ResolveEndness == normalize_endness(call.args.endness)
ResolveIdent == Lower(call.args.ident)

\* Some pattern of the entry matches the identifier at its start.
PatternMatches(e, ident) ==
    \E i \in 1..Len(e.arxs) :
        /\ Len(e.arxs[i].val) <= Len(ident)
        /\ \A n \in 1..Len(e.arxs[i].val) : ident[n] = e.arxs[i].val[n]

\* The bits hint is unset or equals the entry's bits.
BitsAgree(e, bits) == ~Truthy(bits) \/ (bits.kind = "int" /\ bits.val = e.abits)

\* The entry is accepted, in the words of the specification.
Accepts(e, ident, bits, endness) ==
    /\ PatternMatches(e, ident)
    /\ BitsAgree(e, bits)
    /\ (e.aendness = "any" \/ e.aendness = endness \/ endness = "unsure")

AcceptedIndices ==
    {i \in 1..Len(arch_id_map) :
        Accepts(arch_id_map[i], ResolveIdent, ResolveBits, ResolveEndness)}

\* The earliest-registered accepted entry of the last arch_from_id call, 0 if none.
Winner ==
    IF AcceptedIndices = {} THEN 0
    ELSE CHOOSE i \in AcceptedIndices : \A j \in AcceptedIndices : i <= j

\* The entry the arguments of the last register_arch call describe.
EntryOfCall ==
    [arxs |-> call.args.regexes.val, abits |-> call.args.bits.val,
     aendness |-> call.args.endness.val, acls |-> call.args.my_arch]

\* C1: arch_from_id selects the variant of the earliest-registered accepted
\* entry and fails with the unknown-architecture error exactly when no entry
\* is accepted; register_arch only ever appends its own entry at the end of
\* the registry and arch_from_id leaves the registry as it was, so the
\* registry is in the order of the register calls.
C1_FirstAcceptedWins ==
    /\ call.op = "resolve" =>
         /\ arch_id_map = call.pre.map
         /\ IF Winner = 0
            THEN call.ret.kind = "raise" /\ call.ret.exc = "RuntimeError"
            ELSE /\ call.ret.exc # "RuntimeError"
                 /\ call.ret.kind = "ok" => call.ret.val.cls = arch_id_map[Winner].acls
    /\ call.op = "register" =>
         /\ arch_id_map = call.pre.map \/ arch_id_map = Append(call.pre.map, EntryOfCall)
         /\ call.ret.kind = "ok" => arch_id_map = Append(call.pre.map, EntryOfCall)

\* Two entries of different variants are accepted and the earlier one's
\* variant was returned.
C1_Witness ==
    /\ call.op = "resolve"
    /\ call.ret.kind = "ok"
    /\ \E i, j \in AcceptedIndices :
         /\ i < j
         /\ arch_id_map[i].acls # arch_id_map[j].acls
         /\ call.ret.val.cls = arch_id_map[i].acls

\* C2: a register_arch call that fails leaves the registry and the instance
\* list as they were before the call.
C2_NeverPartiallyRegisters ==
    (call.op = "register" /\ call.ret.kind = "raise") =>
        /\ arch_id_map = call.pre.map
        /\ all_arches = call.pre.all

\* The instances the last call added to all_arches.
AddedInstances == SubSeq(all_arches, Len(call.pre.all) + 1, Len(all_arches))

\* C3: a successful register_arch call appends one entry and retains a
\* big-endian and a little-endian instance of the variant for "any", one
\* instance of the given endianness otherwise; arch_from_id changes neither list.
C3_RetainedInstances ==
    /\ (call.op = "register" /\ call.ret.kind = "ok") =>
         /\ arch_id_map = Append(call.pre.map, EntryOfCall)
         /\ SubSeq(all_arches, 1, Len(call.pre.all)) = call.pre.all
         /\ \A i \in 1..Len(AddedInstances) : AddedInstances[i].cls = call.args.my_arch
         /\ IF call.args.endness.val = "any"
            THEN /\ Len(AddedInstances) = 2
                 /\ {AddedInstances[i].memory_endness : i \in 1..2} = {BE, LE}
            ELSE /\ Len(AddedInstances) = 1
                 /\ AddedInstances[1].memory_endness = call.args.endness.val
    /\ call.op = "resolve" =>
         /\ arch_id_map = call.pre.map
         /\ all_arches = call.pre.all

\* The endianness the specification gives the instance arch_from_id returns
\* for entry e.
ExpectedEndness(e, endness) ==
    IF endness = "unsure"
    THEN IF e.aendness = "any" THEN LE ELSE e.aendness
    ELSE endness

\* C4: given the winning entry, arch_from_id returns an instance of its
\* variant: little-endian for an "any" entry under an unsure hint, of the
\* entry's own endianness for a fixed entry under an unsure hint, and of the
\* requested endianness under a little or big hint.
C4_ReturnedEndianness ==
    (call.op = "resolve" /\ Winner # 0) =>
        /\ call.ret.kind = "ok"
        /\ call.ret.val.cls = arch_id_map[Winner].acls
        /\ call.ret.val.memory_endness = ExpectedEndness(arch_id_map[Winner], ResolveEndness)

\* Entry i is the first entry a pattern of which matches the identifier, and
\* is registered with fixed endianness big.
FirstMatchIsBig(i) ==
    /\ arch_id_map[i].aendness = BE
    /\ PatternMatches(arch_id_map[i], ResolveIdent)
    /\ \A j \in 1..(i - 1) : ~PatternMatches(arch_id_map[j], ResolveIdent)

ReturnsBigInstanceOf(i) ==
    /\ call.ret.kind = "ok"
    /\ call.ret.val.cls = arch_id_map[i].acls
    /\ call.ret.val.memory_endness = BE

\* C5 as stated: under an unsure hint a matching big-endian entry is returned
\* as a big-endian instance whatever the bits hint is.
C5_BitsHintIgnored ==
    (call.op = "resolve" /\ ResolveEndness = "unsure") =>
        \A i \in 1..Len(arch_id_map) : FirstMatchIsBig(i) => ReturnsBigInstanceOf(i)

\* C5, amended: under an unsure hint the first matching entry, registered
\* big-endian, is returned as a big-endian instance when the normalised bits
\* hint is unset or equals the entry's bits; when the hint is set and differs
\* the entry is skipped: the result comes from a later accepted entry, or is
\* the unknown-architecture error when there is none.
C5_BitsHintRespected ==
    (call.op = "resolve" /\ ResolveEndness = "unsure") =>
        \A i \in 1..Len(arch_id_map) : FirstMatchIsBig(i) =>
            IF BitsAgree(arch_id_map[i], ResolveBits)
            THEN ReturnsBigInstanceOf(i)
            ELSE IF \E j \in AcceptedIndices : j > i
                 THEN /\ call.ret.exc # "RuntimeError"
                      /\ call.ret.kind = "ok" =>
                           call.ret.val.cls = arch_id_map[Winner].acls
                 ELSE call.ret.kind = "raise" /\ call.ret.exc = "RuntimeError"

\* A bits hint was given, agrees with the first matching, big-endian entry,
\* and that entry's big-endian instance came back.
C5_Witness ==
    /\ call.op = "resolve"
    /\ ResolveEndness = "unsure"
    /\ Truthy(call.args.bits)
    /\ \E i \in 1..Len(arch_id_map) :
         /\ FirstMatchIsBig(i)
         /\ BitsAgree(arch_id_map[i], ResolveBits)
         /\ ReturnsBigInstanceOf(i)

\* The arguments of a register_arch call are malformed: patterns is not a
\* list of compilable patterns, bits is not a positive integer, or endness is
\* not little, big or "any".
Malformed(a) ==
    \/ a.regexes.kind # "list"
    \/ /\ a.regexes.kind = "list"
       /\ \E i \in 1..Len(a.regexes.val) :
            \/ a.regexes.val[i].kind \notin {"str", "pattern"}
            \/ Contains(<<"(">>, a.regexes.val[i].val)
    \/ a.bits.kind # "int"
    \/ (a.bits.kind = "int" /\ a.bits.val <= 0)
    \/ a.endness.kind # "str"
    \/ (a.endness.kind = "str" /\ a.endness.val \notin {LE, BE, "any"})

\* C7: register_arch rejects malformed arguments with a TypeError or a
\* ValueError and leaves the registry and the instance list as they were.
C7_RejectsMalformed ==
    (call.op = "register" /\ Malformed(call.args)) =>
        /\ call.ret.kind = "raise"
        /\ call.ret.exc \in {"TypeError", "ValueError"}
        /\ arch_id_map = call.pre.map
        /\ all_arches = call.pre.all

(***************************************************************************)
(* The calls made on one Arch instance.                                    *)
(***************************************************************************)
\* Every order in which the indices in S can be visited.
RECURSIVE Orders(_)
Orders(S) ==
    IF S = {} THEN {<<>>}
    ELSE UNION {{<<x>> \o p : p \in Orders(S \ {x})} : x \in S}

Reorder(regs, p) == [i \in 1..Len(regs) |-> regs[p[i]]]

\* self.registers[k] = v
dict_set(regs, k, v) ==
    IF \E i \in 1..Len(regs) : regs[i][1] = k
    THEN [i \in 1..Len(regs) |-> IF regs[i][1] = k THEN <<k, v>> ELSE regs[i]]
    ELSE Append(regs, <<k, v>>)

\* A live instance, the forward table of its class when it was built, the
\* first and the latest capstone handle built for it, and whether
\* __getstate__ ran since its capstone handle was last read.
Live(d, regs) ==
    [live |-> TRUE, d |-> d, built_from |-> regs, first_cs |-> NoHandle,
     built_cs |-> NoHandle, pickled |-> FALSE]

ConstructEndness == {LE, BE, ME, "Iend_XE"}

\* cls(endness); the dict `registers` is iterated in one of its orders.
Construct(cls, endness) ==
    /\ \E p \in Orders(1..Len(registers[cls])) :
         LET r == Arch_init(cls, endness, Reorder(registers[cls], p))
         IN  /\ obj' = IF r.kind = "ok" THEN Live(r.val, registers[cls]) ELSE obj
             /\ call' = [op |-> "construct", args |-> [cls |-> cls, endness |-> endness],
                         ret |-> r, pre |-> Pre]
    /\ UNCHANGED <<arch_id_map, all_arches, registers, heap, s1, s2>>

EditedClasses == {"ArchX86", "ArchARM"}
EditedNames == {"sp", "bp"}
EditedValues == { <<24, 4>> }

\* cls.registers[k] = v, after the instance was built or before.
SetRegister(cls, k, v) ==
    /\ registers' = [registers EXCEPT ![cls] = dict_set(@, k, v)]
    /\ call' = [op |-> "set_register", args |-> [cls |-> cls, k |-> k, v |-> v],
                ret |-> Ok(None), pre |-> Pre]
    /\ UNCHANGED <<arch_id_map, all_arches, obj, heap, s1, s2>>

InitTables ==
    /\ InitCommon
    /\ obj = NoObj
    /\ s1 = [r \in StateRegs |-> 0]
    /\ s2 = [r \in StateRegs |-> 0]
    /\ call = [op |-> "none", args |-> None, ret |-> Ok(None), pre |-> Pre]

NextTables ==
    \/ \E cls \in Classes, e \in ConstructEndness : Construct(cls, e)
    \/ \E cls \in EditedClasses, k \in EditedNames, v \in EditedValues : SetRegister(cls, k, v)

SpecTables == InitTables /\ [][NextTables]_vars

ReadCapstone ==
    /\ obj.live
    /\ LET r == capstone(obj.d, heap)
       IN  /\ r.heap <= MaxHandles
           /\ obj' = [obj EXCEPT !.d = r.d,
                                 !.first_cs = IF @.id = 0 /\ r.ret.kind = "ok"
                                              THEN r.ret.val ELSE @,
                                 !.built_cs = IF r.heap > heap THEN r.ret.val ELSE @,
                                 !.pickled = IF r.ret.kind = "ok" THEN FALSE ELSE @]
           /\ heap' = r.heap
           /\ call' = [op |-> "capstone", args |-> None, ret |-> r.ret, pre |-> Pre]
    /\ UNCHANGED <<arch_id_map, all_arches, registers, s1, s2>>

ReadUnicorn ==
    /\ obj.live
    /\ LET r == unicorn(obj.d, heap)
       IN  /\ r.heap <= MaxHandles
           /\ obj' = [obj EXCEPT !.d = r.d]
           /\ heap' = r.heap
           /\ call' = [op |-> "unicorn", args |-> None, ret |-> r.ret, pre |-> Pre]
    /\ UNCHANGED <<arch_id_map, all_arches, registers, s1, s2>>

GetState ==
    /\ obj.live
    /\ obj' = [obj EXCEPT !.d = getstate(@), !.pickled = TRUE]
    /\ call' = [op |-> "getstate", args |-> None, ret |-> Ok(None), pre |-> Pre]
    /\ UNCHANGED <<arch_id_map, all_arches, registers, heap, s1, s2>>

NextHandles ==
    \/ \E cls \in Classes, e \in ConstructEndness : Construct(cls, e)
    \/ ReadCapstone
    \/ ReadUnicorn
    \/ GetState

SpecHandles == InitTables /\ [][NextHandles]_vars

(***************************************************************************)
(* The calls that move register values between two execution states.       *)
(***************************************************************************)
Values == 0..MaxValue

\* None, or a dict from some register names to values.
InfoArgs ==
    {PyNone} \cup {PyDict(f) : f \in UNION {[D -> Values] : D \in SUBSET StateRegs}}

InitStates ==
    /\ InitCommon
    /\ obj \in {Live(Arch_init(c, LE, cls_registers(c)).val, cls_registers(c)) : c \in Classes}
    /\ s1 \in [StateRegs -> Values]
    /\ s2 \in [StateRegs -> Values]
    /\ call = [op |-> "none", args |-> None, ret |-> Ok(None), pre |-> Pre]

\* arch.gather_info_from_state(s1)
Gather ==
    /\ call' = [op |-> "gather", args |-> None,
                ret |-> Ok(gather_info_from_state(obj.d, s1)), pre |-> Pre]
    /\ UNCHANGED <<arch_id_map, all_arches, registers, obj, heap, s1, s2>>

\* arch.prepare_state(s2, info)
Prepare(info) ==
    /\ s2' = prepare_state(obj.d, s2, info)
    /\ call' = [op |-> "prepare", args |-> info, ret |-> Ok(None), pre |-> Pre]
    /\ UNCHANGED <<arch_id_map, all_arches, registers, obj, heap, s1>>

\* arch.prepare_state(s2, arch.gather_info_from_state(s1))
Transplant ==
    /\ s2' = prepare_state(obj.d, s2, gather_info_from_state(obj.d, s1))
    /\ call' = [op |-> "transplant", args |-> None, ret |-> Ok(None), pre |-> Pre]
    /\ UNCHANGED <<arch_id_map, all_arches, registers, obj, heap, s1>>

NextStates ==
    \/ Gather
    \/ \E info \in InfoArgs : Prepare(info)
    \/ Transplant

SpecStates == InitStates /\ [][NextStates]_vars


(***************************************************************************)
(* Properties of Arch.__init__ and the register tables, under SpecTables.  *)
(***************************************************************************)
\* C6: constructing with little, big or middle succeeds and the instance's
\* memory and register endianness both equal the value given; any other
\* value fails with the invalid-endianness error.
C6_EndnessReadBack ==
    call.op = "construct" =>
        IF call.args.endness \in {LE, BE, ME}
        THEN /\ call.ret.kind = "ok"
             /\ call.ret.val.memory_endness = call.args.endness
             /\ call.ret.val.register_endness = call.args.endness
        ELSE call.ret.kind = "raise" /\ call.ret.exc = "ArchError"

\* The names the X86 and AMD64 descriptors keep out of the reverse table.
Excluded(d, k) == d.name \in {"X86", "AMD64"} /\ k \in {"bp", "sp", "ip"}

\* C10: the reverse table of an instance is a function of the forward table
\* its class had when it was built: each reverse entry is a forward entry of
\* that table, each (offset, size) of a forward entry that is not excluded
\* is a key, X86 and AMD64 never map to bp, sp or ip, and a later change of
\* the forward table leaves the instance as it was.
C10_ReverseTable ==
    obj.live =>
        LET rsn == obj.d.register_size_names
            fwd == obj.built_from
        IN  /\ \A e \in rsn : \E i \in 1..Len(fwd) : fwd[i] = <<e[2], e[1]>>
            /\ \A i \in 1..Len(fwd) :
                 ~Excluded(obj.d, fwd[i][1]) => \E e \in rsn : e[1] = fwd[i][2]
            /\ \A e \in rsn : ~Excluded(obj.d, e[2])
            /\ \A e, f \in rsn : e[1] = f[1] => e = f
            /\ call.op = "set_register" => obj = call.pre.obj

\* An X86 instance was built from a table holding excluded names, and its
\* class's forward table has changed since.
C10_Witness ==
    /\ obj.live
    /\ obj.d.name = "X86"
    /\ call.op = "set_register"
    /\ registers[obj.d.cls] # obj.built_from
    /\ \E i \in 1..Len(obj.built_from) : Excluded(obj.d, obj.built_from[i][1])
    /\ obj.d.register_size_names # {}

(***************************************************************************)
(* Properties of the backend handles, under SpecHandles.                   *)
(***************************************************************************)
\* What C8 says of construction, of the emulator handle and of an unset
\* selector.
HandlesCommon ==
    /\ (call.op = "construct" /\ call.ret.kind = "ok") => obj.d._cs.id = 0
    /\ (call.op = "unicorn" /\ obj.d.uc_arch # None) =>
         /\ call.ret.kind = "ok"
         /\ call.ret.val.id = call.pre.heap + 1
         /\ heap = call.pre.heap + 1
         /\ obj = call.pre.obj
         /\ obj.d._cs.id # call.ret.val.id
    /\ (call.op = "unicorn" /\ obj.d.uc_arch = None) =>
         /\ call.ret.kind = "raise" /\ call.ret.exc = "ArchError"
         /\ obj = call.pre.obj
    /\ (call.op = "capstone" /\ obj.d.cs_arch = None) =>
         /\ call.ret.kind = "raise" /\ call.ret.exc = "ArchError"
         /\ obj.d._cs.id = 0
         /\ heap = call.pre.heap

\* C8 as stated: every read of the disassembler handle after the first
\* returns the handle the first read built, whatever was done to the
\* instance in between, and builds nothing.
C8_AlwaysTheFirstHandle ==
    /\ HandlesCommon
    /\ (call.op = "capstone" /\ obj.d.cs_arch # None) =>
         /\ call.ret.kind = "ok"
         /\ call.ret.val = obj.first_cs
         /\ call.pre.obj.first_cs.id # 0 => heap = call.pre.heap

\* C8, amended: the handle is built by the first read and every later read
\* returns the cached handle without building another, until __getstate__
\* empties the cache; the read after that builds a new handle.
C8_CachedUntilGetstate ==
    /\ HandlesCommon
    /\ (call.op = "capstone" /\ obj.d.cs_arch # None) =>
         /\ call.ret.kind = "ok"
         /\ obj.d._cs = call.ret.val
         /\ IF call.pre.obj.d._cs.id # 0
            THEN call.ret.val = call.pre.obj.d._cs /\ heap = call.pre.heap
            ELSE /\ call.ret.val.id = call.pre.heap + 1
                 /\ heap = call.pre.heap + 1
                 /\ call.pre.obj.first_cs.id = 0 \/ call.pre.obj.pickled
    /\ call.op = "getstate" => obj.d._cs.id = 0
    /\ (obj.live /\ obj.built_cs.id # 0 /\ ~obj.pickled) => obj.d._cs = obj.built_cs

\* A read returned the cached handle after other handles had been created.
C8_Witness ==
    /\ call.op = "capstone"
    /\ call.ret.kind = "ok"
    /\ call.pre.obj.d._cs.id # 0
    /\ call.ret.val = call.pre.obj.d._cs
    /\ heap > call.ret.val.id

(***************************************************************************)
(* Properties of the register transplantation, under SpecStates.           *)
(***************************************************************************)
PersistentRegs == Elems(cls_persistent_regs(obj.d.cls))

\* C9: prepare_state stores info[r] into register r exactly for the names r
\* in persistent_regs that are keys of info, leaves every other register and
\* the instance as they were, and does nothing when info is None; after
\* prepare_state(s2, gather_info_from_state(s1)) every persistent register of
\* s2 has its value in s1 and nothing else changed.
C9_PrepareState ==
    /\ call.op = "prepare" =>
         /\ obj = call.pre.obj
         /\ \A r \in StateRegs :
              s2[r] = IF /\ call.args.kind = "dict"
                         /\ r \in PersistentRegs
                         /\ r \in DOMAIN call.args.val
                      THEN call.args.val[r]
                      ELSE call.pre.s2[r]
    /\ call.op = "transplant" =>
         /\ obj = call.pre.obj
         /\ \A r \in StateRegs :
              s2[r] = IF r \in PersistentRegs THEN s1[r] ELSE call.pre.s2[r]
    /\ call.op = "gather" =>
         /\ DOMAIN call.ret.val.val = PersistentRegs
         /\ \A r \in PersistentRegs : call.ret.val.val[r] = s1[r]
         /\ s2 = call.pre.s2

\* info held a persistent register, which was overwritten, and a register
\* that is not persistent, which kept a value different from info's.
C9_Witness ==
    /\ call.op = "prepare"
    /\ call.args.kind = "dict"
    /\ \E r \in PersistentRegs \cap DOMAIN call.args.val :
         s2[r] # call.pre.s2[r]
    /\ \E r \in DOMAIN call.args.val \ PersistentRegs :
         s2[r] # call.args.val[r]

====
